---- MODULE Spec2Model ----
(***************************************************************************)
(* Model of the delimited byte-stream codec of nbytes/bytes.go:            *)
(* DelimitedStreamWriter (encoder) and DelimitedStreamReader (decoder).    *)
(* A byte is a natural number.  One writer encodes units into Dest; after  *)
(* HardFlush a reader is run over the bytes that reached Dest.             *)
(***************************************************************************)
EXTENDS Integers, Sequences, FiniteSets, TLC

VARIABLES dw, dr, phase, units, cur, ret, got, pending, bytes, blen, arg, bl

vars == <<dw, dr, phase, units, cur, ret, got, pending, bytes, blen, arg, bl>>

(***************************************************************************)
(* Bounds of the model.                                                    *)
(***************************************************************************)
\* total number of payload bytes handed to Write in one run
MaxPayload == 3
\* number of End calls in one run
MaxUnits == 3
\* longest caller buffer handed to Read
MaxReadLen == 2
\* most bytes a failing sink takes before it fails
MaxSink == 4
\* value of the byte counter up to which the caller of a failing writer goes on
MaxCount == 6
\* longest buffer handed to a ByteLexer
MaxBuf == 3

\* the longest payload of a stream written by hand for the reader
MaxRoll == 3
\* the longest source handed to a reader stepped through readTill
MaxSrc == 4

(***************************************************************************)
(* Program constants.                                                      *)
(***************************************************************************)
\* bytes.go:23  const swap = '&'
swap == 38
\* bytes.go:327 const defaultBuffer = 1024
defaultBuffer == 1024
\* the number of consecutive empty reads after which the bufio.Reader behind
\* dr.buffer stops reading the source and reports io.ErrNoProgress
maxConsecutiveEmptyReads == 100

(***************************************************************************)
(* Configurations: the exported fields a caller sets on both structs       *)
(* (Swap = 0 and WriteBuffer = 0 are Go's zero values, the field left      *)
(* unset), and Bytes, the bytes the caller puts in payloads.               *)
(***************************************************************************)
Configs ==
  { [Delimiter |-> <<1, 2>>, Escape |-> <<3, 4>>, Swap |-> 0,  WriteBuffer |-> 6,
     Bytes |-> {1, 2, 3, 4}],
    [Delimiter |-> <<1, 2>>, Escape |-> <<3>>,    Swap |-> 0,  WriteBuffer |-> 0,
     Bytes |-> {1, 2, 3, 38}],
    [Delimiter |-> <<1>>,    Escape |-> <<3, 4>>, Swap |-> 38, WriteBuffer |-> 5,
     Bytes |-> {1, 3, 4, 38}],
    [Delimiter |-> <<1, 2>>, Escape |-> <<1, 2>>, Swap |-> 0,  WriteBuffer |-> 0,
     Bytes |-> {1, 2}] }

Min(a, b) == IF a <= b THEN a ELSE b

RECURSIVE SeqsUpTo(_, _)
SeqsUpTo(S, n) ==
  IF n = 0 THEN {<<>>}
  ELSE LET shorter == SeqsUpTo(S, n - 1)
       IN  shorter \cup {Append(s, x) : s \in {t \in shorter : Len(t) = n - 1}, x \in S}

(***************************************************************************)
(* Error values.                                                           *)
(***************************************************************************)
NoErr == "nil"
ErrInvalidEscapeAndDelimiter == "ErrInvalidEscapeAndDelimiter"
ErrEOS == "ErrEOS"
\* the io.EOF value itself, as bytes.Buffer.Read returns it
IoEOF == "io.EOF"
\* nerror.WrapOnly(io.EOF): what readTill makes of the source's end of input
WrappedEOF == "WrapOnly(io.EOF)"
Panicked == "panic"
\* the error a failing Dest.Write returns, and what nerror.WrapOnly makes of it
SinkErr == "sink error"
WrappedSinkErr == "WrapOnly(sink error)"
\* nerror.WrapOnly(io.ErrNoProgress): bufio.Reader gave up on a source that
\* kept returning zero bytes and no error
WrappedNoProgress == "WrapOnly(io.ErrNoProgress)"
\* lexer.go: ErrNoMore
ErrNoMore == "ErrNoMore"

(***************************************************************************)
(* bufio.Writer (dw.cache) over dw.Dest.                                   *)
(***************************************************************************)
Available(w) == w.cacheSize - Len(w.cache)

Buffered(w) == Len(w.cache)

\* the bytes the writer has handed on: those in Dest, then those staged
Out(w) == w.Dest \o w.cache

\* Dest.Write(p): [w, n].  A sink that fails takes sinkLimit bytes in all;
\* the write that runs into the limit takes what still fits and returns an
\* error, which bufio.Writer keeps in its err field (cacheErr)
SinkWrite(w, p) ==
  IF ~w.sinkFailing \/ Len(w.Dest) + Len(p) <= w.sinkLimit
  THEN [w |-> [w EXCEPT !.Dest = @ \o p], n |-> Len(p)]
  ELSE LET n == w.sinkLimit - Len(w.Dest)
       IN  [w |-> [w EXCEPT !.Dest = @ \o SubSeq(p, 1, n),
                            !.cacheErr = SinkErr,
                            !.sinkFails = @ + 1],
            n |-> n]

\* bufio.Writer.Flush: everything buffered goes to Dest; what a failing
\* sink did not take stays buffered
CacheFlush(w) ==
  IF w.cacheErr # NoErr \/ w.cache = <<>> THEN w
  ELSE LET Taken(res) ==
             [res.w EXCEPT !.cache = SubSeq(w.cache, res.n + 1, Len(w.cache))]
       IN  Taken(SinkWrite(w, w.cache))

\* bufio.Writer.Write; it has failed when cacheErr is set afterwards
RECURSIVE CacheWrite(_, _)
CacheWrite(w, p) ==
  IF Len(p) > Available(w) /\ w.cacheErr = NoErr
  THEN IF Buffered(w) = 0
       THEN LET Rest(res) == CacheWrite(res.w, SubSeq(p, res.n + 1, Len(p)))
            IN  Rest(SinkWrite(w, p))
       ELSE LET n == Available(w)
            IN  CacheWrite(CacheFlush([w EXCEPT !.cache = @ \o SubSeq(p, 1, n)]),
                           SubSeq(p, n + 1, Len(p)))
  ELSE IF w.cacheErr # NoErr THEN w
  ELSE [w EXCEPT !.cache = @ \o p]

\* bufio.Writer.WriteByte
CacheWriteByte(w, b) ==
  IF w.cacheErr # NoErr THEN w
  ELSE LET Put(w1) == IF w1.cacheErr # NoErr THEN w1
                      ELSE [w1 EXCEPT !.cache = Append(@, b)]
       IN  Put(IF Available(w) <= 0 THEN CacheFlush(w) ELSE w)

(***************************************************************************)
(* DelimitedStreamWriter.                                                  *)
(***************************************************************************)
NewWriter(c) ==
  [Delimiter |-> c.Delimiter, Escape |-> c.Escape, Swap |-> c.Swap,
   WriteBuffer |-> c.WriteBuffer, Dest |-> <<>>,
   index |-> 0, count |-> 0, buffer |-> <<>>, escape |-> <<>>, cache |-> <<>>,
   cacheSize |-> 0, bufferCap |-> 0, inited |-> FALSE, err |-> NoErr,
   cacheErr |-> NoErr, sinkFailing |-> FALSE, sinkLimit |-> 0, sinkFails |-> 0]

\* return nerror.WrapOnly(err) after a failed write to dw.cache
Fail(w) == [w EXCEPT !.err = WrappedSinkErr]

\* init() without the comparison of Escape and Delimiter
init_NoCheck(w) ==
  IF w.inited THEN [w EXCEPT !.err = NoErr]
  ELSE LET hint == IF w.WriteBuffer <= 0 THEN defaultBuffer ELSE w.WriteBuffer
           possibleSize == (Len(w.Escape) * 2) + Len(w.Delimiter)
       IN  [w EXCEPT !.cacheSize = IF hint < possibleSize
                                    THEN hint + possibleSize ELSE hint,
                     !.Swap = IF w.Swap = 0 THEN swap ELSE w.Swap,
                     !.bufferCap = Len(w.Delimiter),
                     !.inited = TRUE,
                     !.err = NoErr]

\* dw.init(): the lazy construction of the buffers, with the configuration check
init(w) ==
  IF w.inited THEN [w EXCEPT !.err = NoErr]
  ELSE IF w.Escape = w.Delimiter
       THEN [w EXCEPT !.err = ErrInvalidEscapeAndDelimiter]
       ELSE LET hint == IF w.WriteBuffer <= 0 THEN defaultBuffer ELSE w.WriteBuffer
                possibleSize == (Len(w.Escape) * 2) + Len(w.Delimiter)
            IN  [w EXCEPT !.cacheSize = IF hint < possibleSize
                                         THEN hint + possibleSize ELSE hint,
                          !.Swap = IF w.Swap = 0 THEN swap ELSE w.Swap,
                          !.bufferCap = Len(w.Delimiter),
                          !.inited = TRUE,
                          !.err = NoErr]

\* dw.flush(): resolve the comparison buffer into the buffered writer
flush(w) ==
  LET \* the end of the two writes of an escaped sequence
      Second(w2) == IF w2.cacheErr # NoErr THEN Fail(w2)
                    ELSE [w2 EXCEPT !.buffer = <<>>]
      Counted(w1) == [w1 EXCEPT !.count = @ + Len(w.Escape)]
  IN  IF w.buffer = w.Delimiter
      THEN LET First(w1) == IF w1.cacheErr # NoErr THEN Fail(w1)
                            ELSE Second(CacheWrite(Counted(w1), w.Delimiter))
           IN  First(CacheWrite(w, w.Escape))
      ELSE IF Len(w.buffer) = 1 /\ w.buffer[1] = w.Delimiter[1]
      THEN LET First(w1) == IF w1.cacheErr # NoErr THEN Fail(w1)
                            ELSE Second(CacheWriteByte(Counted(w1), w.Swap))
           IN  First(CacheWrite(w, w.Escape))
      ELSE IF w.buffer = <<>> THEN w
      ELSE LET Moved(w1, nn) ==
                 IF w1.cacheErr # NoErr
                 THEN Fail([w1 EXCEPT !.buffer = SubSeq(@, nn + 1, Len(@))])
                 ELSE [w1 EXCEPT !.count = @ + Len(w.buffer), !.buffer = <<>>]
               Sized(w1) == Moved(w1, Len(Out(w1)) - Len(Out(w)))
           IN  Sized(CacheWrite(w, w.buffer))

\* escape.WriteTo(dw.cache) followed by the reset of the escape state
flushEscape(w) ==
  LET Moved(w1, nn) ==
        IF w1.cacheErr # NoErr
        THEN Fail([w1 EXCEPT !.escape = SubSeq(@, nn + 1, Len(@))])
        ELSE [w1 EXCEPT !.index = 0, !.escape = <<>>]
      Sized(w1) == Moved(w1, Len(Out(w1)) - Len(Out(w)))
  IN  Sized(CacheWrite(w, w.escape))

\* lines 235-273 of writeByte: the Delimiter rules
writeDelimited(w, b) ==
  IF Len(w.buffer) = 0 /\ b # w.Delimiter[1]
  THEN LET Put(w1) == IF w1.cacheErr # NoErr THEN Fail(w1) ELSE w1
       IN  Put(CacheWriteByte([w EXCEPT !.count = @ + 1], b))
  ELSE IF Len(w.buffer) = 0 /\ b = w.Delimiter[1]
  THEN [w EXCEPT !.count = @ + 1, !.buffer = Append(@, b)]
  ELSE LET space == w.bufferCap - Len(w.buffer)
       IN  IF Len(w.buffer) # 0 /\ space > 0
           THEN LET w1 == [w EXCEPT !.count = @ + 1, !.buffer = Append(@, b)]
                IN  IF space = 1 THEN flush(w1) ELSE w1
           ELSE w

\* dw.writeByte(b); err = Panicked is Go's index-out-of-range panic on
\* dw.Escape[dw.index]
writeByte(w0, b) ==
  LET Step(w) ==
        LET escapeLen == Len(w.Escape)
            inRange == w.index < escapeLen
            idle == Len(w.buffer) = 0 /\ Len(w.escape) = 0
            matching == Len(w.buffer) = 0 /\ Len(w.escape) # 0
            Broken(w1) == IF w1.err # NoErr THEN w1 ELSE writeDelimited(w1, b)
            Matched(w1) == IF Len(w1.escape) = escapeLen THEN flushEscape(w1) ELSE w1
        IN  IF w.err # NoErr THEN w
            ELSE IF (idle \/ matching) /\ ~inRange THEN [w EXCEPT !.err = Panicked]
            ELSE IF idle /\ b = w.Escape[w.index + 1]
            THEN [w EXCEPT !.index = @ + 1, !.count = @ + 1, !.escape = Append(@, b)]
            ELSE IF matching /\ b # w.Escape[w.index + 1]
            THEN Broken(flushEscape(w))
            ELSE IF matching /\ b = w.Escape[w.index + 1]
            THEN Matched([w EXCEPT !.index = @ + 1, !.count = @ + 1,
                                   !.escape = Append(@, b)])
            ELSE writeDelimited(w, b)
  IN  Step(init(w0))

RECURSIVE WriteFrom(_, _, _)
RECURSIVE WriteFrom_IgnoreError(_, _, _)
\* WriteFrom that carries on past a failed writeByte and reports every byte
WriteFrom_IgnoreError(w, bs, n) ==
  IF n = Len(bs) THEN [w |-> [w EXCEPT !.err = NoErr], n |-> n]
  ELSE WriteFrom_IgnoreError(writeByte(w, bs[n + 1]), bs, n + 1)

\* dw.Write(bs): [w, n] with n the count returned beside w.err
WriteFrom(w, bs, n) ==
  IF n = Len(bs) THEN [w |-> [w EXCEPT !.err = NoErr], n |-> n]
  ELSE LET Written1(w1) == IF w1.err # NoErr THEN [w |-> w1, n |-> n]
                           ELSE WriteFrom(w1, bs, n + 1)
       IN  Written1(writeByte(w, bs[n + 1]))

Write(w, bs) == WriteFrom(w, bs, 0)

\* End() that returns without resetting the match state and the counter
End_NoReset(w0) ==
  LET Closed(w1) == [w |-> CacheWrite(w1, w1.Delimiter),
                     n |-> w1.count + Len(w1.Delimiter)]
      Started(w) == IF w.err # NoErr THEN [w |-> w, n |-> -1]
                    ELSE Closed(flush(w))
  IN  Started(init(w0))

\* dw.End(): [w, n] with n the count returned beside w.err
End(w0) ==
  LET Started(w) ==
        LET available == Available(w)
            Flushed(w1) ==
              LET nowAvailable == Available(w1)
                  written == w1.count
                  buffered == Buffered(w1)
                  hasFlushed == (nowAvailable < available)
                                \/ (buffered + Len(w1.Delimiter) >= nowAvailable)
                  Sent(w3) ==
                    IF w3.cacheErr # NoErr
                    THEN [w |-> Fail(w3), n |-> written + Len(w1.Delimiter)]
                    ELSE [w |-> [w3 EXCEPT !.index = 0, !.buffer = <<>>,
                                           !.escape = <<>>, !.count = 0],
                          n |-> written + Len(w1.Delimiter)]
                  Closed(w2) ==
                    IF w2.cacheErr # NoErr THEN [w |-> Fail(w2), n |-> written]
                    ELSE Sent(IF hasFlushed THEN CacheFlush(w2) ELSE w2)
              IN  IF w1.err # NoErr THEN [w |-> w1, n |-> written]
                  ELSE Closed(CacheWrite(w1, w1.Delimiter))
        IN  IF w.err # NoErr THEN [w |-> w, n |-> -1]
            ELSE Flushed(flush(w))
  IN  Started(init(w0))

\* dw.HardFlush(); on a writer whose buffers were never constructed dw.cache
\* is nil and the call dereferences it
HardFlush(w) ==
  IF w.inited
  THEN LET Flushed(w1) ==
             [w1 EXCEPT !.err = IF w1.cacheErr # NoErr THEN SinkErr ELSE NoErr]
       IN  Flushed(CacheFlush(w))
  ELSE [w EXCEPT !.err = Panicked]

(***************************************************************************)
(* bufio.Reader (dr.buffer) over dr.Src.  The source hands over all of its *)
(* bytes and then end of input; pos counts the bytes consumed so far.      *)
(***************************************************************************)
\* Peek(n) succeeds when n more bytes exist, and fails with io.EOF otherwise
\* the bytes the source hands over: all of Src, or the first avail of them
\* when it then stalls, returning zero bytes and no error from then on
SrcLen(r) == IF r.stalling THEN r.avail ELSE Len(r.Src)

CanPeek(r, n) == r.pos + n <= SrcLen(r)

Peek(r, n) == SubSeq(r.Src, r.pos + 1, r.pos + n)

Discard(r, n) == [r EXCEPT !.pos = @ + n]

\* SrcEnd that takes a stalling source for one at its end
SrcEnd_StallAsEOF(r) ==
  [r EXCEPT !.err = WrappedEOF, !.srcEOF = TRUE,
            !.emptyReads = IF r.stalling THEN maxConsecutiveEmptyReads ELSE 0]

\* a Peek or ReadByte that ran into the end of the source: the error the
\* caller of readTill gets is nerror.WrapOnly(io.EOF); on a stalling source
\* the bufio.Reader reads maxConsecutiveEmptyReads times and the error is
\* nerror.WrapOnly(io.ErrNoProgress)
SrcEnd(r) ==
  IF r.stalling
  THEN [r EXCEPT !.err = WrappedNoProgress,
                 !.emptyReads = maxConsecutiveEmptyReads]
  ELSE [r EXCEPT !.err = WrappedEOF, !.srcEOF = TRUE]

(***************************************************************************)
(* DelimitedStreamReader.                                                  *)
(***************************************************************************)
NewReader(c) ==
  [Delimiter |-> c.Delimiter, Escape |-> c.Escape, Swap |-> c.Swap, Src |-> <<>>,
   pos |-> 0, index |-> 0, comparing |-> FALSE, keepRead |-> FALSE, unit |-> FALSE,
   cached |-> <<>>, inited |-> FALSE, srcEOF |-> FALSE, state |-> FALSE,
   stalling |-> FALSE, avail |-> 0, emptyReads |-> 0,
   err |-> NoErr]

\* lines 459-483 of readTill: the lazy construction, with the configuration check
readInit(r) ==
  IF r.inited THEN [r EXCEPT !.err = NoErr]
  ELSE IF r.Escape = r.Delimiter
       THEN [r EXCEPT !.err = ErrInvalidEscapeAndDelimiter]
       ELSE [r EXCEPT !.Swap = IF r.Swap = 0 THEN swap ELSE r.Swap,
                      !.inited = TRUE, !.err = NoErr]

\* lines 496-552 of readTill: the whole Escape sequence has been consumed
resolveEscape(r) ==
  LET delimLen == Len(r.Delimiter)
  IN  IF ~CanPeek(r, 1) THEN SrcEnd(r)
      ELSE IF Peek(r, 1)[1] = r.Swap
      THEN [Discard(r, 1) EXCEPT !.index = 0, !.comparing = FALSE,
                                 !.cached = Append(@, r.Delimiter[1])]
      ELSE IF ~CanPeek(r, delimLen) THEN SrcEnd(r)
      ELSE IF Peek(r, delimLen) = r.Delimiter
      THEN [Discard(r, delimLen) EXCEPT !.index = 0, !.comparing = FALSE,
                                        !.cached = @ \o r.Delimiter]
      ELSE [r EXCEPT !.index = 0, !.comparing = FALSE, !.cached = @ \o r.Escape]

\* lines 554-624 of readTill: one byte read from the source
scanByte(r0) ==
  IF ~CanPeek(r0, 1) THEN SrcEnd(r0)
  ELSE
    LET bm == Peek(r0, 1)[1]
        r == Discard(r0, 1)
        delimLen == Len(r.Delimiter)
    IN  IF r.index >= Len(r.Escape) THEN [r EXCEPT !.err = Panicked]
        ELSE IF ~r.comparing /\ bm # r.Escape[r.index + 1]
        THEN IF bm = r.Delimiter[1] /\ ~CanPeek(r, delimLen - 1)
             THEN SrcEnd(r)
             ELSE IF bm = r.Delimiter[1]
                     /\ Peek(r, delimLen - 1) = SubSeq(r.Delimiter, 2, delimLen)
             THEN [Discard(r, delimLen - 1) EXCEPT !.unit = TRUE, !.state = TRUE]
             ELSE [r EXCEPT !.cached = Append(@, bm)]
        ELSE IF ~r.comparing
        THEN [r EXCEPT !.index = @ + 1, !.comparing = TRUE]
        ELSE IF bm = r.Escape[r.index + 1]
        THEN [r EXCEPT !.index = @ + 1]
        ELSE LET part == IF r.index > 1 THEN SubSeq(r.Escape, 1, r.index - 1)
                         ELSE SubSeq(r.Escape, 1, r.index)
             IN  [r EXCEPT !.index = 0, !.comparing = FALSE,
                           !.cached = @ \o part, !.pos = @ - 1]

\* readTill without the return on a cache that already fills the caller's buffer
readTill_NoSpaceCheck(r0, space) ==
  LET r == [readInit(r0) EXCEPT !.state = FALSE]
  IN  IF r.err # NoErr THEN r
      ELSE IF r.comparing /\ r.index >= Len(r.Escape) THEN resolveEscape(r)
      ELSE scanByte(r)

\* dr.readTill(space): the result is in the fields state and err
readTill(r0, space) ==
  LET r == [readInit(r0) EXCEPT !.state = FALSE]
  IN  IF r.err # NoErr THEN r
      ELSE IF Len(r.cached) >= space THEN [r EXCEPT !.state = TRUE]
      ELSE IF r.comparing /\ r.index >= Len(r.Escape) THEN resolveEscape(r)
      ELSE scanByte(r)

\* cached.Read(b) with len(b) = room: the number of bytes copied
CachedRead(r, room) == IF Len(r.cached) <= room THEN Len(r.cached) ELSE room

\* dr.Read(b) with len(b) = room left and data already copied into b:
\* [r, data, err] with data the bytes delivered and err the error returned
RECURSIVE ReadLoop(_, _, _)
ReadLoop(r, room, data) ==
  IF r.keepRead
  THEN LET r1 == IF Len(r.cached) = 0 THEN [r EXCEPT !.keepRead = FALSE] ELSE r
           n == CachedRead(r1, room)
           r2 == [r1 EXCEPT !.cached = SubSeq(@, n + 1, Len(@))]
           data2 == data \o SubSeq(r1.cached, 1, n)
       IN  IF Len(r1.cached) = 0 /\ room > 0
           THEN [r |-> r1, data |-> data, err |-> IoEOF]
           ELSE IF Len(r2.cached) = 0 /\ r2.unit
           THEN [r |-> [r2 EXCEPT !.keepRead = FALSE, !.unit = FALSE],
                 data |-> data2, err |-> ErrEOS]
           ELSE LET r3 == IF Len(r2.cached) = 0
                          THEN [r2 EXCEPT !.keepRead = FALSE] ELSE r2
                IN  IF n = room THEN [r |-> r3, data |-> data2, err |-> NoErr]
                    ELSE ReadLoop(r3, room - n, data2)
  ELSE LET r1 == readTill(r, room)
       IN  IF r1.err = Panicked THEN [r |-> r1, data |-> data, err |-> Panicked]
           ELSE IF r1.err # NoErr
           THEN IF ~r1.inited
                THEN [r |-> [r1 EXCEPT !.err = Panicked], data |-> data, err |-> Panicked]
                ELSE LET n == CachedRead(r1, room)
                     IN  [r |-> [r1 EXCEPT !.cached = SubSeq(@, n + 1, Len(@))],
                          data |-> data \o SubSeq(r1.cached, 1, n), err |-> r1.err]
           ELSE IF r1.state THEN ReadLoop([r1 EXCEPT !.keepRead = TRUE], room, data)
           ELSE ReadLoop(r1, room, data)

\* emptyReads counts the empty reads of the source made during the call
Read(r, len) == ReadLoop([r EXCEPT !.emptyReads = 0], len, <<>>)

\* SuffixReader.readMoreBytes, given what sr.Source.Read returned
readMoreBytes(read, err) ==
  IF err # NoErr THEN [n |-> read, err |-> err]
  ELSE IF read = 0 THEN [n |-> read, err |-> ErrNoMore]
  ELSE [n |-> read, err |-> NoErr]

(***************************************************************************)
(* ByteLexer (lexer.go): a cursor p and a mark lp over a byte buffer.  An  *)
(* index of the Go code is the same number here; buf[i] is the sequence    *)
(* element i + 1.                                                          *)
(***************************************************************************)
NewByteLexer(b) ==
  [buf |-> b, err |-> NoErr, cp |-> Len(b), ln |-> Len(b), lx |-> Len(b) - 1,
   p |-> -1, lp |-> 0]

Index(l) == IF l.p = -1 THEN 0 ELSE l.buf[l.p + 1]

Rem(l) == IF l.p = -1 THEN l.lx ELSE l.lx - l.p

\* the slice expression buf[lo:hi]: [val, err], err = Panicked when Go panics
\* on the bounds
Slice(buf, lo, hi) ==
  IF 0 <= lo /\ lo <= hi /\ hi <= Len(buf)
  THEN [val |-> SubSeq(buf, lo + 1, hi), err |-> NoErr]
  ELSE [val |-> <<>>, err |-> Panicked]

\* nil is the empty sequence
ScanLeft(l) ==
  IF l.p >= l.lx \/ l.p = -1 THEN [val |-> <<>>, err |-> NoErr]
  ELSE Slice(l.buf, l.p, Len(l.buf))

Scan(l) ==
  IF l.p >= l.lx \/ l.p = -1 THEN [val |-> <<>>, err |-> NoErr]
  ELSE Slice(l.buf, l.lp, l.p)

Record(l) == IF l.err # NoErr THEN l ELSE [l EXCEPT !.lp = l.p]

Move(l, n) ==
  IF l.err # NoErr THEN l
  ELSE LET next == l.p + n
       IN  IF next >= l.lx THEN [l EXCEPT !.p = l.lx, !.err = IoEOF]
           ELSE [l EXCEPT !.p = next]

\* ByteLexer.Next with the test Move makes, against the last index
LexerNext_LastIndex(l) ==
  LET next == l.p + 1
  IN  IF next >= l.lx THEN [l |-> [l EXCEPT !.err = IoEOF], err |-> IoEOF]
      ELSE [l |-> [l EXCEPT !.p = next], err |-> NoErr]

\* ByteLexer.Next: [l, err] with err the error returned
LexerNext(l) ==
  LET next == l.p + 1
  IN  IF next >= l.ln THEN [l |-> [l EXCEPT !.err = IoEOF], err |-> IoEOF]
      ELSE [l |-> [l EXCEPT !.p = next], err |-> NoErr]

Position(l) == [last |-> l.lp, current |-> l.p]

Err(l) == l.err

Reset(l, b) ==
  [l EXCEPT !.cp = Len(b), !.ln = Len(b), !.lx = Len(b) - 1, !.buf = b,
            !.p = -1, !.err = NoErr]

(***************************************************************************)
(* The state machine.  phase "write": the caller drives the writer;        *)
(* "read": a reader decodes the bytes that reached Dest, the caller        *)
(* passing a buffer of blen bytes to every Read.  units and cur record the *)
(* payload bytes Write reported as accepted, per unit; got records what    *)
(* Read delivered up to each non-nil error, pending the bytes delivered    *)
(* since; ret is what the last call returned and arg the bytes handed to   *)
(* the last Write of the open unit.  bl is a ByteLexer, which the codec    *)
(* does not use.                                                           *)
(***************************************************************************)
RECURSIVE Flat(_)
Flat(us) == IF us = <<>> THEN <<>> ELSE Head(us) \o Flat(Tail(us))

\* the number of payload bytes accepted so far
Written == Len(Flat(units)) + Len(cur)

Init ==
  \E c \in Configs :
    /\ dw = NewWriter(c)
    /\ dr = NewReader(c)
    /\ phase = "write"
    /\ units = <<>>
    /\ cur = <<>>
    /\ ret = [op |-> "new", n |-> 0, err |-> NoErr]
    /\ got = <<>>
    /\ pending = <<>>
    /\ bytes = c.Bytes
    /\ blen = 0
    /\ arg = <<>>
    /\ bl = NewByteLexer(<<>>)

\* the caller hands the payload of a unit to Write in one call
WriteCall(bs) ==
  /\ phase = "write"
  /\ dw.err # Panicked
  /\ cur = <<>>
  /\ LET res == Write(dw, bs)
     IN  /\ dw' = res.w
         /\ cur' = SubSeq(bs, 1, res.n)
         /\ ret' = [op |-> "Write", n |-> res.n, err |-> res.w.err]
  /\ arg' = bs
  /\ UNCHANGED <<dr, phase, units, got, pending, bytes, blen, bl>>

EndCall ==
  /\ phase = "write"
  /\ dw.err # Panicked
  /\ Len(units) < MaxUnits
  /\ LET res == End(dw)
     IN  /\ dw' = res.w
         /\ ret' = [op |-> "End", n |-> res.n, err |-> res.w.err]
         /\ IF res.w.err = NoErr
            THEN units' = Append(units, cur) /\ cur' = <<>> /\ arg' = <<>>
            ELSE UNCHANGED <<units, cur, arg>>
  /\ UNCHANGED <<dr, phase, got, pending, bytes, blen, bl>>

\* once the last unit is closed, the caller flushes the staging buffer and
\* hands the bytes that reached Dest to the reader
HardFlushCall ==
  /\ phase = "write"
  /\ dw.inited
  /\ cur = <<>>
  /\ dw.err # Panicked
  /\ dw' = HardFlush(dw)
  /\ dr' = [dr EXCEPT !.Src = dw'.Dest]
  /\ blen' \in 1..MaxReadLen
  /\ phase' = "read"
  /\ ret' = [op |-> "HardFlush", n |-> 0, err |-> dw'.err]
  /\ UNCHANGED <<units, cur, got, pending, bytes, arg, bl>>

\* a writer that never constructed its buffers has nothing to flush: the
\* reader is run over the empty Dest
StartRead ==
  /\ phase = "write"
  /\ ~dw.inited
  /\ dr' = [dr EXCEPT !.Src = dw.Dest]
  /\ blen' \in 1..MaxReadLen
  /\ phase' = "read"
  /\ ret' = [op |-> "new", n |-> 0, err |-> NoErr]
  /\ UNCHANGED <<dw, units, cur, got, pending, bytes, arg, bl>>

\* the caller reads until the reader fails
ReadCall(len) ==
  /\ phase = "read"
  /\ ret.err \notin {Panicked, WrappedEOF, WrappedNoProgress,
                     ErrInvalidEscapeAndDelimiter}
  /\ LET res == Read(dr, len)
     IN  /\ dr' = res.r
         /\ ret' = [op |-> "Read", n |-> Len(res.data), err |-> res.err]
         /\ IF res.err = NoErr
            THEN /\ pending' = pending \o res.data
                 /\ got' = got
            ELSE /\ pending' = <<>>
                 /\ got' = Append(got, [data |-> pending \o res.data,
                                        err |-> res.err])
  /\ UNCHANGED <<dw, phase, units, cur, bytes, blen, arg, bl>>

Next ==
  \/ \E bs \in SeqsUpTo(bytes, MaxPayload - Written) \ {<<>>} : WriteCall(bs)
  \/ EndCall
  \/ HardFlushCall
  \/ StartRead
  \/ ReadCall(blen)


Spec == Init /\ [][Next]_vars

(***************************************************************************)
(* The writer over a sink that fails: Dest takes between 0 and MaxSink     *)
(* bytes and then returns an error from Write.  The caller goes on calling *)
(* after an error; its payloads are made of the first and last Delimiter   *)
(* byte and the first Escape byte.                                         *)
(***************************************************************************)
\* the configurations whose staging buffer is small enough to be flushed
\* to the sink in the course of a unit
SinkConfigs == {c \in Configs : c.WriteBuffer > 0}

SinkInit ==
  \E c \in SinkConfigs, k \in 0..MaxSink :
    /\ dw = [NewWriter(c) EXCEPT !.sinkFailing = TRUE, !.sinkLimit = k]
    /\ dr = NewReader(c)
    /\ phase = "write"
    /\ units = <<>>
    /\ cur = <<>>
    /\ ret = [op |-> "new", n |-> 0, err |-> NoErr]
    /\ got = <<>>
    /\ pending = <<>>
    /\ bytes = {c.Delimiter[1], c.Delimiter[Len(c.Delimiter)], c.Escape[1]}
    /\ blen = 0
    /\ arg = <<>>
    /\ bl = NewByteLexer(<<>>)

SinkNext ==
  \/ \E bs \in SeqsUpTo(bytes, MaxPayload - Written) \ {<<>>} :
       dw.count <= MaxCount /\ WriteCall(bs)
  \/ dw.count <= MaxCount /\ EndCall
  \/ dw.count <= MaxCount /\ HardFlushCall

SinkSpec == SinkInit /\ [][SinkNext]_vars

(***************************************************************************)
(* The decoders over a source that stalls: it hands over the first avail   *)
(* bytes the writer produced and from then on returns zero bytes and no    *)
(* error.  The caller reads it with DelimitedStreamReader.Read (phase      *)
(* "read") or with SuffixReader.readMoreBytes (phase "more").              *)
(***************************************************************************)
StallInit ==
  \E c \in {k \in Configs : k.Escape # k.Delimiter} :
    /\ dw = NewWriter(c)
    /\ dr = NewReader(c)
    /\ phase = "write"
    /\ units = <<>>
    /\ cur = <<>>
    /\ ret = [op |-> "new", n |-> 0, err |-> NoErr]
    /\ got = <<>>
    /\ pending = <<>>
    /\ bytes = {c.Delimiter[1], c.Delimiter[Len(c.Delimiter)], c.Escape[1]}
    /\ blen = 0
    /\ arg = <<>>
    /\ bl = NewByteLexer(<<>>)

\* the caller flushes the writer and starts reading what reached Dest
\* through a source that stalls after k bytes
StallStart(k, kind) ==
  /\ phase = "write"
  /\ dw.inited
  /\ cur = <<>>
  /\ dw.err # Panicked
  /\ dw' = HardFlush(dw)
  /\ k <= Len(dw'.Dest)
  /\ dr' = [dr EXCEPT !.Src = dw'.Dest, !.stalling = TRUE, !.avail = k]
  /\ blen' \in 1..MaxReadLen
  /\ phase' = kind
  /\ ret' = [op |-> "HardFlush", n |-> 0, err |-> dw'.err]
  /\ UNCHANGED <<units, cur, got, pending, bytes, arg, bl>>

\* sr.readMoreBytes(b) with len(b) = len: sr.Source.Read hands over the next
\* bytes, or zero bytes and no error once it stalls
ReadMoreCall(len) ==
  /\ phase = "more"
  /\ ret.err = NoErr
  /\ LET read == Min(len, SrcLen(dr) - dr.pos)
         res == readMoreBytes(read, NoErr)
     IN  /\ dr' = [dr EXCEPT !.pos = @ + read,
                             !.emptyReads = IF read = 0 THEN 1 ELSE 0]
         /\ ret' = [op |-> "readMoreBytes", n |-> res.n, err |-> res.err]
  /\ UNCHANGED <<dw, phase, units, cur, got, pending, bytes, blen, arg, bl>>

StallNext ==
  \/ \E bs \in SeqsUpTo(bytes, MaxPayload - Written) \ {<<>>} : WriteCall(bs)
  \/ EndCall
  \/ \E k \in 0..(MaxPayload + 2 * MaxUnits) : StallStart(k, "read")
  \/ \E k \in 0..(MaxPayload + 2 * MaxUnits) : StallStart(k, "more")
  \/ ReadCall(blen)
  \/ ReadMoreCall(blen)

StallSpec == StallInit /\ [][StallNext]_vars

(***************************************************************************)
(* A ByteLexer and its caller (phase "lexer").  ret is what the last call  *)
(* returned: n is the argument of Move, val the bytes Scan and ScanLeft    *)
(* return, err the error returned (Panicked when the call panics); run     *)
(* says that nothing but Next was called since NewByteLexer or Reset, and  *)
(* ok counts the calls of Next that returned nil since then.  The codec is *)
(* not used.                                                               *)
(***************************************************************************)
LexBufs == SeqsUpTo({7, 8}, MaxBuf)

LexRet(op, n, err, val, run, ok) ==
  [op |-> op, n |-> n, err |-> err, val |-> val, run |-> run, ok |-> ok]

LexInit ==
  /\ \E b \in LexBufs : bl = NewByteLexer(b)
  /\ ret = LexRet("NewByteLexer", 0, NoErr, <<>>, TRUE, 0)
  /\ phase = "lexer"
  /\ \E c \in Configs :
       /\ c.Escape = c.Delimiter
       /\ dw = NewWriter(c)
       /\ dr = NewReader(c)
       /\ bytes = c.Bytes
  /\ units = <<>>
  /\ cur = <<>>
  /\ got = <<>>
  /\ pending = <<>>
  /\ blen = 0
  /\ arg = <<>>

LexNextCall ==
  /\ phase = "lexer"
  /\ ret.err # Panicked
  /\ LET res == LexerNext(bl)
     IN  /\ bl' = res.l
         /\ ret' = LexRet("Next", 0, res.err, <<>>, ret.run,
                          IF res.err = NoErr THEN ret.ok + 1 ELSE ret.ok)
  /\ UNCHANGED <<dw, dr, phase, units, cur, got, pending, bytes, blen, arg>>

LexMoveCall(n) ==
  /\ phase = "lexer"
  /\ ret.err # Panicked
  /\ bl' = Move(bl, n)
  /\ ret' = LexRet("Move", n, NoErr, <<>>, FALSE, ret.ok)
  /\ UNCHANGED <<dw, dr, phase, units, cur, got, pending, bytes, blen, arg>>

LexRecordCall ==
  /\ phase = "lexer"
  /\ ret.err # Panicked
  /\ bl' = Record(bl)
  /\ ret' = LexRet("Record", 0, NoErr, <<>>, FALSE, ret.ok)
  /\ UNCHANGED <<dw, dr, phase, units, cur, got, pending, bytes, blen, arg>>

LexScanCall ==
  /\ phase = "lexer"
  /\ ret.err # Panicked
  /\ LET res == Scan(bl)
     IN  ret' = LexRet("Scan", 0, res.err, res.val, FALSE, ret.ok)
  /\ UNCHANGED <<bl, dw, dr, phase, units, cur, got, pending, bytes, blen, arg>>

LexScanLeftCall ==
  /\ phase = "lexer"
  /\ ret.err # Panicked
  /\ LET res == ScanLeft(bl)
     IN  ret' = LexRet("ScanLeft", 0, res.err, res.val, FALSE, ret.ok)
  /\ UNCHANGED <<bl, dw, dr, phase, units, cur, got, pending, bytes, blen, arg>>

LexResetCall(b) ==
  /\ phase = "lexer"
  /\ ret.err # Panicked
  /\ bl' = Reset(bl, b)
  /\ ret' = LexRet("Reset", 0, NoErr, <<>>, TRUE, 0)
  /\ UNCHANGED <<dw, dr, phase, units, cur, got, pending, bytes, blen, arg>>

LexNext ==
  \/ LexNextCall
  \/ \E n \in 0..(MaxBuf + 1) : LexMoveCall(n)
  \/ LexRecordCall
  \/ LexScanCall
  \/ LexScanLeftCall
  \/ \E b \in LexBufs : LexResetCall(b)

LexSpec == LexInit /\ [][LexNext]_vars

(***************************************************************************)
(* Vocabulary of the properties.                                           *)
(***************************************************************************)
Valid == dw.Escape # dw.Delimiter

\* the Swap byte in force once the buffers are constructed
SwapByte == IF dw.Swap = 0 THEN swap ELSE dw.Swap

BytesOf(s) == {s[i] : i \in 1..Len(s)}

\* P holds no byte of the Delimiter and no byte of the Escape sequence
Plain(P) == BytesOf(P) \cap (BytesOf(dw.Delimiter) \cup BytesOf(dw.Escape)) = {}

\* pat occurs in s at index i
Occurs(pat, s, i) ==
  /\ i >= 1
  /\ i + Len(pat) - 1 <= Len(s)
  /\ SubSeq(s, i, i + Len(pat) - 1) = pat

Contains(pat, s) == \E i \in 1..Len(s) : Occurs(pat, s, i)

\* the caller has stopped reading: the last Read failed
ReadOver ==
  phase = "read" /\ ret.err \in {Panicked, WrappedEOF, ErrInvalidEscapeAndDelimiter}

DataOf(g) == Flat([i \in 1..Len(g) |-> g[i].data])

\* every byte Read has delivered so far, in order
Delivered == DataOf(got) \o pending

HasEOS == \E i \in 1..Len(got) : got[i].err = ErrEOS

\* the bytes delivered up to the first ErrEOS
DataUntilEOS ==
  LET first == CHOOSE i \in 1..Len(got) :
                 got[i].err = ErrEOS /\ \A j \in 1..(i - 1) : got[j].err # ErrEOS
  IN  DataOf(SubSeq(got, 1, first))

\* what a reader of the units written should see up to its i-th error
Expected(i) == [data |-> units[i], err |-> ErrEOS]

(***************************************************************************)
(* C1.  Round trip: a payload P without Delimiter and Escape bytes,        *)
(* written with Write and End, is delivered by Read, for every caller      *)
(* buffer length: reading until ErrEOS yields ErrEOS, and the bytes        *)
(* delivered up to it are exactly P.                                       *)
(***************************************************************************)
C1_RoundTrip ==
  ( /\ phase = "read" /\ Valid
    /\ Len(units) = 1 /\ units[1] # <<>>
    /\ Plain(units[1])
    /\ (ReadOver \/ HasEOS) )
  => (HasEOS /\ DataUntilEOS = units[1])

(***************************************************************************)
(* C2.  Delimiter in payload: a payload P that contains the Delimiter      *)
(* sequence is delivered unchanged: no ErrEOS arrives before all of P has  *)
(* been delivered, and when reading is over the bytes delivered are P.     *)
(***************************************************************************)
C2_DelimiterInPayload ==
  ( /\ phase = "read" /\ Valid
    /\ Len(units) = 1
    /\ Contains(dw.Delimiter, units[1]) )
  => /\ HasEOS => DataUntilEOS = units[1]
     /\ ReadOver => Delivered = units[1]

(***************************************************************************)
(* C3.  Escape in payload: a payload P that contains the Escape sequence,  *)
(* no occurrence of it followed by the Swap byte or by the Delimiter, is   *)
(* delivered unchanged.                                                    *)
(***************************************************************************)
EscapeNotFollowed(P) ==
  /\ Contains(dw.Escape, P)
  /\ \A i \in 1..Len(P) :
       Occurs(dw.Escape, P, i) =>
         /\ ~Occurs(<<SwapByte>>, P, i + Len(dw.Escape))
         /\ ~Occurs(dw.Delimiter, P, i + Len(dw.Escape))

C3_EscapeInPayload ==
  ( /\ phase = "read" /\ Valid
    /\ Len(units) = 1
    /\ EscapeNotFollowed(units[1]) )
  => /\ HasEOS => DataUntilEOS = units[1]
     /\ ReadOver => Delivered = units[1]

(***************************************************************************)
(* C4.  Tail ambiguity: a payload P whose last byte is Delimiter[0] (its   *)
(* other bytes plain) is delivered as P followed by ErrEOS, and a second   *)
(* unit written right after it is delivered as its own payload followed by *)
(* ErrEOS.                                                                 *)
(***************************************************************************)
C4_TailAmbiguity ==
  ( /\ phase = "read" /\ Valid
    /\ Len(units) = 2 /\ units[1] # <<>>
    /\ units[1][Len(units[1])] = dw.Delimiter[1]
    /\ Plain(SubSeq(units[1], 1, Len(units[1]) - 1))
    /\ Plain(units[2]) )
  => /\ \A i \in 1..Min(Len(got), 2) : got[i] = Expected(i)
     /\ ReadOver => Len(got) > 2

(***************************************************************************)
(* C5.  Multi-unit stream: three units P1, P2, P3 (empty ones included,    *)
(* here of plain bytes) written to one writer are delivered, in this       *)
(* order, as P1, ErrEOS, P2, ErrEOS, P3, ErrEOS, for every caller buffer   *)
(* length.                                                                 *)
(***************************************************************************)
C5_MultiUnit ==
  ( /\ phase = "read" /\ Valid
    /\ Len(units) = 3
    /\ \A i \in 1..3 : Plain(units[i]) )
  => /\ \A i \in 1..Min(Len(got), 3) : got[i] = Expected(i)
     /\ ReadOver => Len(got) > 3

(***************************************************************************)
(* C6.  Framing safety of the encoder: in the bytes emitted for a unit,    *)
(* the Delimiter sequence occurs before the closing Delimiter only where   *)
(* the Escape sequence immediately precedes it.                            *)
(***************************************************************************)
C6_FramingSafety ==
  ( /\ phase = "write" /\ Valid
    /\ ret.op = "End" /\ Len(units) = 1 )
  => LET out == dw.Dest \o dw.cache
     IN  \A i \in 1..(Len(out) - Len(dw.Delimiter)) :
           Occurs(dw.Delimiter, out, i) => Occurs(dw.Escape, out, i - Len(dw.Escape))

(***************************************************************************)
(* C7.  A unit boundary is never confused with the end of the source:      *)
(* when a Read call returns, no consumed Delimiter is left unreported, and *)
(* an end-of-input error is returned only once the source has returned     *)
(* end of input.                                                           *)
(***************************************************************************)
C7_BoundaryNotEndOfSource ==
  (phase = "read" /\ Valid /\ ret.op = "Read")
  => /\ ~dr.unit
     /\ ret.err \in {IoEOF, WrappedEOF} => dr.srcEOF

(***************************************************************************)
(* C8.  Read delivery order: a Read call delivers at most len(b) bytes,    *)
(* the bytes held in the cache first; it returns ErrEOS or an end-of-input *)
(* error only with the cache drained, and while the cache holds more than  *)
(* len(b) bytes it fills b and returns no error.                           *)
(***************************************************************************)
ReadDelivers ==
  LET k == Min(blen, Len(dr.cached))
      before == Delivered
      after == Delivered'
  IN  /\ Len(after) = Len(before) + ret'.n
      /\ ret'.n <= blen
      /\ SubSeq(after, 1, Len(before)) = before
      /\ ret'.err # Panicked =>
           /\ ret'.n >= k
           /\ SubSeq(after, Len(before) + 1, Len(before) + k) = SubSeq(dr.cached, 1, k)
      /\ ret'.err \in {ErrEOS, IoEOF, WrappedEOF} => dr'.cached = <<>>
      /\ Len(dr.cached) > blen => (ret'.err = NoErr /\ ret'.n = blen)

C8_ReadDeliveryOrder == [][phase = "read" => ReadDelivers]_vars

\* a Read call has filled the caller's buffer and left decoded bytes in the cache
C8_Witness ==
  /\ phase = "read" /\ ret.op = "Read" /\ ret.err = NoErr
  /\ ret.n = blen /\ Len(dr.cached) > 0 /\ dr.keepRead

(***************************************************************************)
(* C9.  Configuration rejection by the encoder: with Escape equal to       *)
(* Delimiter every Write returns ErrInvalidEscapeAndDelimiter with 0 bytes *)
(* accepted, every End returns it too, and no byte reaches the sink.       *)
(***************************************************************************)
C9_WriterRejectsConfiguration ==
  (phase = "write" /\ ~Valid)
  => /\ dw.Dest = <<>> /\ dw.cache = <<>>
     /\ ret.op = "Write" => (ret.err = ErrInvalidEscapeAndDelimiter /\ ret.n = 0)
     /\ ret.op = "End" => (ret.err = ErrInvalidEscapeAndDelimiter /\ ret.n = -1)

\* End has been refused on a writer whose Escape equals its Delimiter
C9_Witness ==
  /\ phase = "write" /\ ~Valid
  /\ ret.op = "End" /\ ret.err = ErrInvalidEscapeAndDelimiter

(***************************************************************************)
(* C10.  Configuration rejection by the decoder: with Escape equal to      *)
(* Delimiter the first Read returns ErrInvalidEscapeAndDelimiter as an     *)
(* error value, delivers no byte and consumes none from the source.        *)
(***************************************************************************)
C10_ReaderRejectsConfiguration ==
  (phase = "read" /\ ~Valid /\ ret.op = "Read")
  => /\ ret.err = ErrInvalidEscapeAndDelimiter
     /\ ret.n = 0
     /\ dr.pos = 0

\* every byte the writer has emitted so far: those in Dest, then those staged
Emitted == dw.Dest \o dw.cache

(***************************************************************************)
(* C11.  Encoder state reset: when End returns without error the escape    *)
(* index is 0, the escape buffer and the comparison buffer are empty and   *)
(* the byte counter is 0, whatever was written before; and an End that     *)
(* directly follows a successful End (an empty payload between them) adds  *)
(* exactly the Delimiter to the output, with no escape or swap byte.       *)
(***************************************************************************)
EndResets ==
  (phase = "write" /\ Len(units') = Len(units) + 1)
  => /\ ret'.op = "End" /\ ret'.err = NoErr
     /\ dw'.index = 0
     /\ dw'.escape = <<>>
     /\ dw'.buffer = <<>>
     /\ dw'.count = 0
     /\ (ret.op = "End" /\ ret.err = NoErr)
          => /\ Emitted' = Emitted \o dw.Delimiter
             /\ ret'.n = Len(dw.Delimiter)

C11_EncoderStateReset == [][EndResets]_vars

\* a unit with a payload has been closed, then an empty one
C11_Witness ==
  /\ phase = "write" /\ ret.op = "End" /\ ret.err = NoErr
  /\ Len(units) = 2 /\ units[1] # <<>> /\ units[2] = <<>>
  /\ dw.index = 0 /\ dw.count = 0
  /\ Len(Emitted) >= 2 * Len(dw.Delimiter)
  /\ SubSeq(Emitted, Len(Emitted) - 2 * Len(dw.Delimiter) + 1, Len(Emitted))
       = dw.Delimiter \o dw.Delimiter

(***************************************************************************)
(* C12.  End flushes the buffered output and writes the Delimiter to the   *)
(* sink: when End returns without error every encoded byte of the unit's   *)
(* payload has reached Dest, ahead of the unit's Delimiter; at most that   *)
(* Delimiter is still staged.                                              *)
(***************************************************************************)
C12_EndDeliversToSink ==
  (phase = "write" /\ Valid /\ ret.op = "End" /\ ret.err = NoErr)
  => Len(dw.cache) <= Len(dw.Delimiter)


(***************************************************************************)
(* C13.  Sink failure reporting: a Write during which a write to the sink  *)
(* fails returns the error with the number of bytes of its argument        *)
(* accepted before the failing byte; the sink is not written again after   *)
(* its failure (no retry); an End during which the sink fails returns the  *)
(* error with the unit's byte counter, closes no unit and leaves the       *)
(* escape index, the escape buffer and the counter unreset.                *)
(***************************************************************************)
\* the sink fails while Write(w, bs) handles byte k + 1, and not before
FailsAtByte(w, bs, k) ==
  /\ k < Len(bs)
  /\ Write(w, SubSeq(bs, 1, k)).w.sinkFails = w.sinkFails
  /\ Write(w, SubSeq(bs, 1, k + 1)).w.sinkFails > w.sinkFails

SinkFailureReported ==
  LET failsNow == dw'.sinkFails > dw.sinkFails
  IN  /\ dw'.sinkFails <= 1
      /\ (failsNow /\ ret'.op = "Write")
           => /\ ret'.err = WrappedSinkErr
              /\ FailsAtByte(dw, arg', ret'.n)
              /\ cur' = SubSeq(arg', 1, ret'.n)
      /\ (failsNow /\ ret'.op = "End")
           => /\ ret'.err = WrappedSinkErr
              /\ ret'.n \in {dw'.count, dw'.count + Len(dw.Delimiter)}
              /\ units' = units
              /\ dw'.index = dw.index
              /\ dw'.escape = dw.escape
              /\ dw'.count >= dw.count

MoveAdvances ==
  (phase = "lexer" /\ ret'.op = "Move" /\ Err(bl) = NoErr)
  => IF bl.p + ret'.n <= bl.lx
     THEN bl'.p = bl.p + ret'.n /\ Err(bl') = NoErr
     ELSE bl'.p = bl.lx /\ Err(bl') = IoEOF

C15_MoveClamps == [][MoveAdvances]_vars

(***************************************************************************)
(* C16.  ByteLexer.Reset(b) leaves the lexer in the observable state of a  *)
(* fresh NewByteLexer(b): the same Position(), Err() and Rem(), and the    *)
(* same results of the calls that follow.                                  *)
(***************************************************************************)
C16_ResetIsFresh ==
  (phase = "lexer" /\ ret.op = "Reset")
  => LET fresh == NewByteLexer(bl.buf)
     IN  /\ Position(bl) = Position(fresh)
         /\ Err(bl) = Err(fresh)
         /\ Rem(bl) = Rem(fresh)
         /\ Scan(LexerNext(bl).l) = Scan(LexerNext(fresh).l)
         /\ ScanLeft(LexerNext(bl).l) = ScanLeft(LexerNext(fresh).l)

(***************************************************************************)
(* C17.  ByteLexer.Next moves the cursor forward by one and returns nil    *)
(* while cursor + 1 is a valid index; otherwise it returns io.EOF, records *)
(* it in Err() and leaves the cursor where it is.  From a fresh lexer over *)
(* a buffer of length n exactly the first n calls return nil.              *)
(***************************************************************************)
NextAdvances ==
  (phase = "lexer" /\ ret'.op = "Next")
  => /\ IF bl.p + 1 < Len(bl.buf)
        THEN ret'.err = NoErr /\ bl'.p = bl.p + 1 /\ Err(bl') = Err(bl)
        ELSE ret'.err = IoEOF /\ bl'.p = bl.p /\ Err(bl') = IoEOF
     /\ ret'.run
          => /\ ret'.err = NoErr => (ret'.ok <= Len(bl.buf) /\ ret'.ok = bl'.p + 1)
             /\ ret'.err = IoEOF => ret'.ok = Len(bl.buf)

C17_NextAdvances == [][NextAdvances]_vars

\* from a fresh lexer over two bytes or more, every byte has been stepped
\* onto and the call after the last has failed
C17_Witness ==
  /\ phase = "lexer" /\ ret.op = "Next" /\ ret.run
  /\ ret.err = IoEOF
  /\ Len(bl.buf) >= 2 /\ ret.ok = Len(bl.buf)
  /\ bl.p = bl.lx

(***************************************************************************)
(* C18.  ByteLexer.Scan returns the bytes between the mark and the cursor  *)
(* and ScanLeft the bytes from the cursor to the end of the buffer; both   *)
(* return an empty result while the cursor is -1 and once it has reached   *)
(* the last index, and in every other state a valid slice of the buffer.   *)
(***************************************************************************)
C18_ScanReturnsSlice ==
  (phase = "lexer" /\ ret.op \in {"Scan", "ScanLeft"})
  => /\ ret.err # Panicked
     /\ (bl.p = -1 \/ bl.p >= bl.lx) => ret.val = <<>>
     /\ (bl.p # -1 /\ bl.p < bl.lx /\ ret.op = "ScanLeft")
          => ret.val = SubSeq(bl.buf, bl.p + 1, Len(bl.buf))
     /\ (bl.p # -1 /\ bl.p < bl.lx /\ ret.op = "Scan")
          => ret.val = SubSeq(bl.buf, bl.lp + 1, bl.p)


(***************************************************************************)
(* C19.  Whenever a Read call returns after the decoder has consumed a     *)
(* unit's Delimiter and handed out the unit's last byte (the call returns  *)
(* ErrEOS, or the io.EOF of C7 in its place), the decoder's state is the   *)
(* state before the first unit: index 0, comparing false, unit false,      *)
(* keepRead false and an empty cache, so that the next unit is decoded     *)
(* from the same state as the first.                                       *)
(***************************************************************************)
DecoderIsReset ==
  /\ dr.index = 0
  /\ ~dr.comparing
  /\ ~dr.unit
  /\ ~dr.keepRead
  /\ dr.cached = <<>>

C19_DecoderStateReset ==
  (phase = "read" /\ Valid /\ ret.op = "Read" /\ ret.err \in {ErrEOS, IoEOF})
  => DecoderIsReset


(***************************************************************************)
(* The reader over a stream written by hand: one unit whose payload is     *)
(* made of the first bytes of Escape and a plain byte and holds no whole   *)
(* Escape and no Delimiter byte, followed by the Delimiter.  Such a        *)
(* payload needs no escaping, and the stream of the unit is the payload    *)
(* and the Delimiter.  Escape has two or three bytes, so that a match of   *)
(* one and of two bytes can be broken.                                     *)
(***************************************************************************)
RollConfigs ==
  { [Delimiter |-> <<1, 2>>, Escape |-> <<3, 4>>,    Swap |-> 0, WriteBuffer |-> 0,
     Bytes |-> {3, 9}],
    [Delimiter |-> <<1, 2>>, Escape |-> <<3, 4, 5>>, Swap |-> 0, WriteBuffer |-> 0,
     Bytes |-> {3, 4, 9}] }

RollInit ==
  \E c \in RollConfigs :
    /\ dw = NewWriter(c)
    /\ dr = NewReader(c)
    /\ phase = "feed"
    /\ units = <<>>
    /\ cur = <<>>
    /\ ret = [op |-> "new", n |-> 0, err |-> NoErr]
    /\ got = <<>>
    /\ pending = <<>>
    /\ bytes = c.Bytes
    /\ blen = 0
    /\ arg = <<>>
    /\ bl = NewByteLexer(<<>>)

\* the source of the reader becomes the stream of the unit with payload P
RollFeed(P) ==
  /\ phase = "feed"
  /\ ~Contains(dr.Escape, P)
  /\ dr' = [dr EXCEPT !.Src = P \o dr.Delimiter]
  /\ units' = <<P>>
  /\ blen' \in 1..MaxReadLen
  /\ phase' = "read"
  /\ UNCHANGED <<dw, cur, ret, got, pending, bytes, arg, bl>>

RollNext ==
  \/ \E P \in SeqsUpTo(bytes, MaxRoll) : RollFeed(P)
  \/ ReadCall(blen)

RollSpec == RollInit /\ [][RollNext]_vars

(***************************************************************************)
(* C20.  When a source byte breaks a match of the first k bytes of Escape  *)
(* (1 <= k < len(Escape)), the decoder hands out the k matched bytes and   *)
(* then evaluates the breaking byte anew: the unit read from a stream      *)
(* whose payload holds proper prefixes of Escape followed by other bytes   *)
(* is the payload, with no byte lost, for every caller buffer length.      *)
(***************************************************************************)
IsPrefix(s, t) == Len(s) <= Len(t) /\ SubSeq(t, 1, Len(s)) = s

C20_RollbackLosesNoByte ==
  (phase = "read" /\ ret.op = "Read" /\ Len(units) = 1)
  => /\ got = <<>> => IsPrefix(pending, units[1])
     /\ got # <<>> => got[1].data = units[1]


(***************************************************************************)
(* C21.  Between calls of a writer with a valid configuration the          *)
(* comparison buffer holds at most len(Delimiter) bytes and is never left  *)
(* full: the write that fills it resolves and empties it before it         *)
(* returns, for a Delimiter of one byte as for a longer one.               *)
(***************************************************************************)
C21_ComparisonBufferResolved ==
  (phase = "write" /\ Valid /\ ret.op \in {"Write", "End"} /\ ret.err = NoErr)
  => /\ Len(dw.buffer) <= Len(dw.Delimiter)
     /\ Len(dw.buffer) # Len(dw.Delimiter)


(***************************************************************************)
(* The writer fed one byte per call: the caller hands every payload byte   *)
(* to Write on its own and closes units with End, so that the state        *)
(* between two calls is the state between two bytes.  The configurations   *)
(* are those of the round trip and those with an Escape of three bytes.    *)
(***************************************************************************)
ByteConfigs == Configs \cup RollConfigs

ByteInit ==
  \E c \in ByteConfigs :
    /\ dw = NewWriter(c)
    /\ dr = NewReader(c)
    /\ phase = "write"
    /\ units = <<>>
    /\ cur = <<>>
    /\ ret = [op |-> "new", n |-> 0, err |-> NoErr]
    /\ got = <<>>
    /\ pending = <<>>
    /\ bytes = c.Bytes
    /\ blen = 0
    /\ arg = <<>>
    /\ bl = NewByteLexer(<<>>)

\* Write of the one byte b; cur collects the bytes Write reported as written
WriteByteCall(b) ==
  /\ phase = "write"
  /\ dw.err # Panicked
  /\ Written < MaxPayload
  /\ LET res == Write(dw, <<b>>)
     IN  /\ dw' = res.w
         /\ cur' = cur \o SubSeq(<<b>>, 1, res.n)
         /\ ret' = [op |-> "Write", n |-> res.n, err |-> res.w.err]
  /\ arg' = <<b>>
  /\ UNCHANGED <<dr, phase, units, got, pending, bytes, blen, bl>>

ByteNext ==
  \/ \E b \in bytes : WriteByteCall(b)
  \/ EndCall

ByteSpec == ByteInit /\ [][ByteNext]_vars

(***************************************************************************)
(* C22.  A Write step taken while the writer holds k >= 1 matched Escape   *)
(* bytes, whose first byte b does not continue the Escape: the step does   *)
(* not fail, and after the byte b the k bytes have been written downstream *)
(* unchanged, followed by b when b is not the first Delimiter byte, while  *)
(* b sits alone in the comparison buffer when it is; the escape buffer is  *)
(* empty and the index 0.  Stated for the call Write([b]).                 *)
(***************************************************************************)
EscapeFalseAlarm ==
  (/\ phase = "write" /\ Valid
   /\ ret'.op = "Write" /\ Len(arg') = 1
   /\ dw.escape # <<>> /\ dw.buffer = <<>>
   /\ (dw.index >= Len(dw.Escape) \/ arg'[1] # dw.Escape[dw.index + 1]))
  => LET b == arg'[1]
     IN  /\ ret'.err = NoErr /\ ret'.n = 1
         /\ dw'.escape = <<>> /\ dw'.index = 0
         /\ IF b = dw.Delimiter[1]
            THEN Emitted' = Emitted \o dw.escape /\ dw'.buffer = <<b>>
            ELSE Emitted' = Emitted \o dw.escape \o <<b>> /\ dw'.buffer = <<>>

C22_EscapeFalseAlarm == [][EscapeFalseAlarm]_vars


(***************************************************************************)
(* The reader stepped through its calls of readTill (phase "till"): the    *)
(* source is any byte sequence of up to MaxSrc bytes over the bytes of the *)
(* configuration, and the caller's buffer is longer than the source, so    *)
(* that Read goes on calling readTill until it reports a unit boundary or  *)
(* an error.  After a boundary Read drains the cache and returns, and the  *)
(* next Read call goes on with readTill.                                   *)
(***************************************************************************)
TillInit ==
  \E c \in Configs :
    /\ dw = NewWriter(c)
    /\ \E S \in SeqsUpTo(c.Bytes, MaxSrc) : dr = [NewReader(c) EXCEPT !.Src = S]
    /\ phase = "till"
    /\ units = <<>>
    /\ cur = <<>>
    /\ ret = [op |-> "new", n |-> 0, err |-> NoErr]
    /\ got = <<>>
    /\ pending = <<>>
    /\ bytes = c.Bytes
    /\ blen = MaxSrc + 1
    /\ arg = <<>>
    /\ bl = NewByteLexer(<<>>)

\* one call of dr.readTill(space) from the loop of Read
TillCall ==
  /\ phase = "till"
  /\ dr.err = NoErr
  /\ ~dr.state
  /\ dr' = readTill(dr, blen)
  /\ ret' = [op |-> "readTill", n |-> 0, err |-> dr'.err]
  /\ UNCHANGED <<dw, phase, units, cur, got, pending, bytes, blen, arg, bl>>

\* readTill has reported a boundary: Read sets keepRead, hands out the cache
\* and returns
TillDrain ==
  /\ phase = "till"
  /\ dr.err = NoErr
  /\ dr.state
  /\ LET Returned(res) ==
           /\ dr' = [res.r EXCEPT !.state = FALSE]
           /\ ret' = [op |-> "Read", n |-> Len(res.data), err |-> res.err]
           /\ got' = Append(got, [data |-> res.data, err |-> res.err])
     IN  Returned(ReadLoop([dr EXCEPT !.keepRead = TRUE], blen, <<>>))
  /\ UNCHANGED <<dw, phase, units, cur, pending, bytes, blen, arg, bl>>

TillNext ==
  \/ TillCall
  \/ TillDrain

TillSpec == TillInit /\ [][TillNext]_vars

(***************************************************************************)
(* C23.  A readTill step in SCANNING on a source byte that does not start  *)
(* the Escape: when the byte is the first Delimiter byte and the other     *)
(* len(Delimiter)-1 bytes can be peeked and match, they are consumed and a *)
(* boundary is reported with nothing appended to the decoded output; in    *)
(* every other case, also when the other Delimiter bytes cannot be peeked  *)
(* or do not match, the byte is appended to the decoded output.            *)
(***************************************************************************)
ScanningStep ==
  (/\ phase = "till" /\ ret'.op = "readTill"
   /\ dr.Escape # dr.Delimiter
   /\ ~dr.comparing
   /\ dr.pos < Len(dr.Src)
   /\ dr.Src[dr.pos + 1] # dr.Escape[1])
  => LET bm == dr.Src[dr.pos + 1]
         delimLen == Len(dr.Delimiter)
     IN  IF /\ bm = dr.Delimiter[1]
            /\ dr.pos + delimLen <= Len(dr.Src)
            /\ SubSeq(dr.Src, dr.pos + 1, dr.pos + delimLen) = dr.Delimiter
         THEN /\ dr'.pos = dr.pos + delimLen
              /\ dr'.cached = dr.cached
              /\ dr'.state /\ dr'.unit
         ELSE /\ dr'.pos = dr.pos + 1
              /\ dr'.cached = Append(dr.cached, bm)

C23_ScanningStep == [][ScanningStep]_vars


(***************************************************************************)
(* C24.  A readTill step taken with the whole Escape consumed, when the    *)
(* next source byte is not the Swap byte and the next len(Delimiter) bytes *)
(* are not the Delimiter (also when fewer than len(Delimiter) bytes are    *)
(* left): the Escape is appended to the decoded output, the decoder is     *)
(* back in SCANNING with index 0, and no source byte is consumed, so that  *)
(* the bytes after the Escape are scanned next.                            *)
(***************************************************************************)
LiteralEscapeStep ==
  (/\ phase = "till" /\ ret'.op = "readTill"
   /\ dr.comparing /\ dr.index >= Len(dr.Escape)
   /\ dr.pos < Len(dr.Src)
   /\ dr.Src[dr.pos + 1] # dr.Swap
   /\ ~Occurs(dr.Delimiter, dr.Src, dr.pos + 1))
  => /\ dr'.cached = dr.cached \o dr.Escape
     /\ dr'.index = 0 /\ ~dr'.comparing
     /\ dr'.pos = dr.pos

C24_LiteralEscape == [][LiteralEscapeStep]_vars


(***************************************************************************)
(* C25.  Between calls of a writer with a valid configuration the byte     *)
(* counter is the number of payload bytes Write has accepted since the     *)
(* unit was started: every accepted byte is counted once, inserted Escape  *)
(* and Swap bytes are not counted, and a successful End sets it to 0.      *)
(***************************************************************************)
C25_ByteCounter ==
  (phase = "write" /\ Valid /\ ret.err = NoErr) => dw.count = Len(cur)


(***************************************************************************)
(* C26.  Between calls of a writer with a valid configuration, whatever    *)
(* the Escape length: the escape buffer and the comparison buffer are not  *)
(* both non-empty, the escape index is the number of bytes in the escape   *)
(* buffer, and the index is below len(Escape), so that Escape[index] is in *)
(* range.                                                                  *)
(***************************************************************************)
C26_MatchState ==
  (phase = "write" /\ Valid /\ dw.inited /\ ret.err = NoErr)
  => /\ dw.escape = <<>> \/ dw.buffer = <<>>
     /\ dw.index = Len(dw.escape)
     /\ dw.index < Len(dw.Escape)


(***************************************************************************)
(* C27.  An End that returns nil while the escape buffer holds matched     *)
(* payload bytes writes those bytes downstream before the Delimiter: the   *)
(* output grows by the pending bytes followed by the Delimiter, so that a  *)
(* payload ending in a prefix of the Escape is complete in the output.     *)
(***************************************************************************)
EndWritesPending ==
  (/\ phase = "write" /\ Valid
   /\ Len(units') = Len(units) + 1
   /\ dw.escape # <<>> /\ dw.buffer = <<>>)
  => Emitted' = Emitted \o dw.escape \o dw.Delimiter

C27_EndKeepsPendingEscape == [][EndWritesPending]_vars


(***************************************************************************)
(* C28.  A byte b that Write reports as written has been recorded: after   *)
(* the call of Write([b]) it is the last byte of the output written to the *)
(* staging buffer, or it has been appended to the escape buffer or to the  *)
(* comparison buffer, and not to both.                                     *)
(***************************************************************************)
ByteRecorded ==
  (/\ phase = "write" /\ Valid
   /\ ret'.op = "Write" /\ ret'.err = NoErr
   /\ Len(arg') = 1 /\ cur' = Append(cur, arg'[1]))
  => LET b == arg'[1]
         written == /\ Len(Emitted') > Len(Emitted)
                    /\ Emitted'[Len(Emitted')] = b
         inEscape == dw'.escape = Append(dw.escape, b)
         inBuffer == dw'.buffer = Append(dw.buffer, b)
     IN  /\ written \/ inEscape \/ inBuffer
         /\ ~(inEscape /\ inBuffer)

C28_NoByteDropped == [][ByteRecorded]_vars


(***************************************************************************)
(* C29.  After any sequence of NewByteLexer, Reset, Next, Move(n) with     *)
(* n >= 0 and Record calls the cursor is between -1 and the last index,    *)
(* and whenever Scan slices the buffer the mark is between 0 and the       *)
(* cursor: no call addresses the buffer out of range.                      *)
(***************************************************************************)
C29_PositionSafety ==
  phase = "lexer"
  => /\ -1 <= bl.p /\ bl.p <= bl.lx
     /\ ret.err # Panicked
     /\ (bl.p # -1 /\ bl.p < bl.lx) => (0 <= bl.lp /\ bl.lp <= bl.p)


====
